---- MODULE Spec2Model ----
(***************************************************************************)
(* Model of make-catalog.py: the expansion of `_versions:` directives of   *)
(* OLM channel documents into `entries:` chains (Catalogger.render,        *)
(* OlmChannelParser, ImageVersion, BundleVersion).                         *)
(*                                                                         *)
(* Strings are sequences of one-character strings, except that the         *)
(* placeholder "@@VERSION@@" of a pattern is one element.  Texts of YAML   *)
(* documents are sequences of atoms (records tagged by field t).           *)
(***************************************************************************)
EXTENDS Integers, Sequences, FiniteSets, TLC

VARIABLES
    pc,               \* position of the (single-threaded) program
    has_opm,          \* whether `opm` is on the PATH (environment)
    inputs_read,      \* number of input files opened so far by render
    channels_read,    \* number of channel documents constructed so far
    _yaml_unexpanded, \* OlmChannelParser._yaml_unexpanded of the current channel
    olm_channel_yaml, \* OlmChannelParser.olm_channel_yaml of the current channel
    warned,           \* the "channel without an expansion section" warning was logged
    versions,         \* local `versions` of _load_entries
    vi,               \* index in `versions` of the spec being enumerated
    entries,          \* local `entries` of _load_entries
    pattern,          \* locals of BundleVersion.enumerate ...
    first_version,
    last_version,
    to_skip,
    failures,
    successes,
    current_version,
    _load_cache,      \* BundleVersion._load_cache (class attribute)
    out,              \* what has been written to index.yaml, in order
    error,            \* the exception that ended the run, or NoError
    opm_calls,        \* history: `opm render` invocations, in order (image names)
    observed,         \* history: image name -> set of results BundleVersion.load returned
    budget,           \* history: initial value of `failures` of the current spec
    probed,           \* history: lookups of the current spec, in order
    yielded,          \* history: cursors at which the current spec yielded, in order
    fresh_walks,      \* history: the enumerations that found no image in the cache
    last_answer       \* history: what the renderer answered in the last step, if invoked

vars == <<pc, has_opm, inputs_read, channels_read, _yaml_unexpanded,
          olm_channel_yaml, warned, versions, vi, entries, pattern,
          first_version, last_version, to_skip, failures, successes,
          current_version, _load_cache, out, error, opm_calls, observed,
          budget, probed, yielded, fresh_walks, last_answer>>

-----------------------------------------------------------------------------
(* Bounds of the model *)

\* cursors with a patch level above MaxPatch are not explored
MaxPatch == 2
\* number of channel documents of a run
MaxChannels == 2
\* number of input files of a run
MaxInputs == 1

-----------------------------------------------------------------------------
(* Python values *)

None == [py |-> "None"]
NoError == [exn |-> "none"]

\* dict.get(key, default)
Get(dict, key, default) == IF key \in DOMAIN dict THEN dict[key] ELSE default

-----------------------------------------------------------------------------
(* Strings and numbers *)

DigitChars == <<"0", "1", "2", "3", "4", "5", "6", "7", "8", "9">>

IsDigit(c) == \E d \in 1..10 : DigitChars[d] = c

DigitValue(c) == (CHOOSE d \in 1..10 : DigitChars[d] = c) - 1

\* str(n) for a non-negative int
RECURSIVE IntToStr(_)
IntToStr(n) ==
    IF n < 10 THEN <<DigitChars[n + 1]>>
    ELSE IntToStr(n \div 10) \o <<DigitChars[(n % 10) + 1]>>

\* int(s) for a non-empty string of digits
RECURSIVE StrToInt(_)
StrToInt(s) ==
    IF Len(s) = 1 THEN DigitValue(s[1])
    ELSE 10 * StrToInt(SubSeq(s, 1, Len(s) - 1)) + DigitValue(s[Len(s)])

\* s.split(".")
RECURSIVE SplitDots(_)
SplitDots(s) ==
    IF \A i \in 1..Len(s) : s[i] # "."
    THEN <<s>>
    ELSE LET i == CHOOSE j \in 1..Len(s) :
                      s[j] = "." /\ \A k \in 1..(j - 1) : s[k] # "."
         IN  <<SubSeq(s, 1, i - 1)>> \o SplitDots(SubSeq(s, i + 1, Len(s)))

\* semver's numeric identifier: 0|[1-9]\d*
IsNumericId(s) ==
    /\ Len(s) >= 1
    /\ \A i \in 1..Len(s) : IsDigit(s[i])
    /\ (Len(s) > 1 => s[1] # "0")

-----------------------------------------------------------------------------
(* class ImageVersion *)

\* semver.Version as the triple the comparisons use
SemVer(major, minor, patch) == [major |-> major, minor |-> minor, patch |-> patch]

\* ImageVersion.__init__
ImageVersion(prefix, ver) == [prefix |-> prefix, ver |-> ver]

\* whether ImageVersion.parse accepts version_string: the regular expression
\* (v?)([0-9.]*)$ matches, and semver parses group 2
CanParse(version_string) ==
    LET rest == IF Len(version_string) >= 1 /\ version_string[1] = "v"
                THEN Tail(version_string) ELSE version_string
        parts == SplitDots(rest)
    IN  /\ \A i \in 1..Len(rest) : IsDigit(rest[i]) \/ rest[i] = "."
        /\ Len(parts) = 3
        /\ \A i \in 1..3 : IsNumericId(parts[i])

\* whether the regular expression of ImageVersion.parse matches
Matched(version_string) ==
    LET rest == IF Len(version_string) >= 1 /\ version_string[1] = "v"
                THEN Tail(version_string) ELSE version_string
    IN  \A i \in 1..Len(rest) : IsDigit(rest[i]) \/ rest[i] = "."

\* ImageVersion.parse, for a string it accepts
parse(version_string) ==
    LET hasv  == Len(version_string) >= 1 /\ version_string[1] = "v"
        rest  == IF hasv THEN Tail(version_string) ELSE version_string
        parts == SplitDots(rest)
    IN  ImageVersion(IF hasv THEN <<"v">> ELSE <<>>,
                     SemVer(StrToInt(parts[1]), StrToInt(parts[2]),
                            StrToInt(parts[3])))

\* the next patch level, the prefix being lost
inc_patchlevel_bare(self) ==
    ImageVersion(<<>>, [self.ver EXCEPT !.patch = self.ver.patch + 1])

\* ImageVersion.inc_patchlevel
inc_patchlevel(self) ==
    ImageVersion(self.prefix, [self.ver EXCEPT !.patch = self.ver.patch + 1])

\* str(semver.Version)
VerStr(ver) ==
    IntToStr(ver.major) \o <<".">> \o IntToStr(ver.minor) \o <<".">>
        \o IntToStr(ver.patch)

\* ImageVersion.__repr__ (also str())
Repr(self) == self.prefix \o VerStr(self.ver)

\* semver.Version.__le__: lexicographic on (major, minor, patch)
VerLe(a, b) ==
    \/ a.major < b.major
    \/ a.major = b.major /\ a.minor < b.minor
    \/ a.major = b.major /\ a.minor = b.minor /\ a.patch <= b.patch

\* a comparison of the patch levels alone
LePatch(self, other) == self.ver.patch <= other.ver.patch

\* ImageVersion.__le__: the prefix takes no part
Le(self, other) == VerLe(self.ver, other.ver)

-----------------------------------------------------------------------------
(* The external renderer, `opm render <image> --output=yaml` *)

\* the element of a pattern that stands for the text @@VERSION@@
Placeholder == "@@VERSION@@"

\* re.sub('@@VERSION@@', repl, pattern): every occurrence is replaced
RECURSIVE Substitute(_, _)
Substitute(pat, repl) ==
    IF pat = <<>> THEN <<>>
    ELSE (IF Head(pat) = Placeholder THEN repl ELSE <<Head(pat)>>)
             \o Substitute(Tail(pat), repl)

\* one property of a rendered record
Property(type, value) == [type |-> type, value |-> value]

PackageProperty(ver) == Property("olm.package", [version |-> ver])

GvkProperty == Property("olm.gvk", [kind |-> "Operator"])

\* one YAML document of the renderer's output
Record(schema, name, properties) ==
    [schema |-> schema, name |-> name, properties |-> properties]

\* subprocess.run's result / subprocess.CalledProcessError
Completed(yamls) == [returncode |-> 0, stdout |-> yamls]

CalledProcessError == [returncode |-> 1]

\* What the renderer may answer for an image probed at expected_version: an
\* error, a bundle without package property, a bundle that declares the next
\* patch level, and a record of another schema followed by a bundle that
\* declares the version asked for.
RendererAnswers(docker_image_name, expected_version) ==
    LET this == expected_version.ver
        next == inc_patchlevel(expected_version).ver
    IN  { CalledProcessError,
          Completed(<<Record("olm.bundle", docker_image_name, <<GvkProperty>>)>>),
          Completed(<<Record("olm.bundle", docker_image_name,
                             <<PackageProperty(next)>>)>>),
          Completed(<<Record("olm.other", <<"o">>, <<>>),
                      Record("olm.bundle", docker_image_name,
                             <<GvkProperty, PackageProperty(this)>>)>>) }

-----------------------------------------------------------------------------
(* class BundleVersion *)

\* BundleVersion.__init__
BundleVersion(version, yamls) == [version |-> version, yamls |-> yamls]

\* the versions of the olm.package properties of the records, in the order
\* in which the two loops of _do_load meet them
RECURSIVE PackageVersions(_)
PackageVersions(yamls) ==
    IF yamls = <<>> THEN <<>>
    ELSE LET props == Head(yamls).properties
             pkg   == SelectSeq(props, LAMBDA p : p.type = "olm.package")
         IN  [i \in 1..Len(pkg) |-> pkg[i].value.version]
                 \o PackageVersions(Tail(yamls))

\* _do_load without the comparison of the declared version
_do_load_unchecked(opm_rendered, expected_version) ==
    IF opm_rendered.returncode # 0 THEN None
    ELSE IF PackageVersions(opm_rendered.stdout) = <<>> THEN None
    ELSE BundleVersion(expected_version, opm_rendered.stdout)

\* BundleVersion._do_load, given what run_opm did
_do_load(opm_rendered, expected_version) ==
    IF opm_rendered.returncode # 0 THEN None
    ELSE LET yamls == opm_rendered.stdout
             found == PackageVersions(yamls)
         IN  IF found = <<>> THEN None
             ELSE IF found[1] # expected_version.ver THEN None
             ELSE BundleVersion(expected_version, yamls)

\* the dict _load_cache is a sequence of items in insertion order
CacheKeys(cache) == {cache[i].key : i \in 1..Len(cache)}

CacheHas(cache, key) == key \in CacheKeys(cache)

CacheGet(cache, key) ==
    cache[CHOOSE i \in 1..Len(cache) : cache[i].key = key].value

\* BundleVersion.load without the test of the cache
MustLoadAlways(cache, docker_image_name) == TRUE

\* `docker_image_name not in cls._load_cache` of BundleVersion.load
MustLoad(cache, docker_image_name) == ~CacheHas(cache, docker_image_name)

\* only the first bundle loaded
all_loaded_first(cache) ==
    LET loaded == SelectSeq(cache, LAMBDA item : item.value # None)
    IN  IF loaded = <<>> THEN loaded ELSE <<loaded[1]>>

\* BundleVersion.all_loaded
all_loaded(cache) == SelectSeq(cache, LAMBDA item : item.value # None)

-----------------------------------------------------------------------------
(* Texts of channel documents *)

\* a str where the code may also hold None
Str(s) == [py |-> "str", s |-> s]

\* a list where the code may also hold None
PyList(items) == [py |-> "list", items |-> items]

\* "\n"
NL == [t |-> "nl"]

\* text without newline that begins with a letter, such as "name: stable"
Top(s) == [t |-> "top", s |-> s]

\* the text "_versions:"
Marker == [t |-> "marker"]

\* the text " []"
Flow == [t |-> "flow"]

\* the indented text of one item of the list under `_versions:`, without its
\* last newline; versions_info is what YAML loads from it
Item(versions_info) == [t |-> "item", versions_info |-> versions_info]

\* the position is the beginning of a line (what ^ matches under re.MULTILINE)
LineStart(text, i) == i = 1 \/ text[i - 1] = NL

\* OlmChannelParser._parsed: the match of
\* (.*)^_versions:(.*?)(^[a-zA-Z].*)?\Z under MULTILINE|DOTALL, or None
_parsed(text) ==
    LET markers == {i \in 1..Len(text) : text[i] = Marker /\ LineStart(text, i)}
    IN  IF markers = {} THEN None
        ELSE LET m    == CHOOSE i \in markers : \A j \in markers : j <= i
                 tops == {e \in (m + 1)..Len(text) :
                              text[e].t = "top" /\ LineStart(text, e)}
                 e    == IF tops = {} THEN Len(text) + 1
                         ELSE CHOOSE i \in tops : \A j \in tops : i <= j
             IN  [g1 |-> SubSeq(text, 1, m - 1),
                  g2 |-> SubSeq(text, m + 1, e - 1),
                  g3 |-> IF tops = {} THEN None
                         ELSE Str(SubSeq(text, e, Len(text)))]

\* yaml.safe_load of the text of a directive
SafeLoad(text) ==
    LET items == SelectSeq(text, LAMBDA a : a.t = "item")
    IN  IF \E i \in 1..Len(text) : text[i] = Flow THEN PyList(<<>>)
        ELSE IF items = <<>> THEN None
        ELSE PyList([i \in 1..Len(items) |-> items[i].versions_info])

\* OlmChannelParser.yaml_prologue_string
yaml_prologue_string(text) ==
    IF _parsed(text) # None THEN _parsed(text).g1 ELSE <<>>

\* OlmChannelParser.image_versions
image_versions(text) ==
    IF _parsed(text) # None THEN SafeLoad(_parsed(text).g2) ELSE None

\* OlmChannelParser.yaml_epilogue_string
yaml_epilogue_string(text) ==
    IF _parsed(text) # None /\ _parsed(text).g3 # None
    THEN _parsed(text).g3.s ELSE <<>>

\* Python's truth value of `versions`
Truthy(value) == value # None /\ value.items # <<>>

\* the text yaml.safe_dump(entries) produces, last newline included
Dump(list) == [t |-> "dump", entries |-> list]

\* the two parts of the text and the entries block, nothing added
ExpandedBare(text, list) ==
    yaml_prologue_string(text) \o <<Top("entries:"), NL>>
        \o <<Dump(list)>> \o <<NL>> \o yaml_epilogue_string(text)

\* the f-string of _load_entries
Expanded(text, list) ==
    <<NL>> \o yaml_prologue_string(text) \o <<NL, Top("entries:"), NL>>
        \o <<Dump(list)>> \o <<NL>> \o yaml_epilogue_string(text) \o <<NL>>

\* entries[-1]["replaces"] = name
SetReplaces(entry, name) == [name |-> entry.name, replaces |-> name]

\* `replaces` is set from the third entry on
AddEntryLate(list, y) ==
    LET appended == IF y.schema = "olm.bundle"
                    THEN Append(list, [name |-> y.name]) ELSE list
        n        == Len(appended)
    IN  IF n > 2
        THEN [appended EXCEPT ![n] = SetReplaces(appended[n], appended[n - 1].name)]
        ELSE appended

\* the body of `for y in b.yamls` of _load_entries, for one y
AddEntry(list, y) ==
    LET appended == IF y.schema = "olm.bundle"
                    THEN Append(list, [name |-> y.name]) ELSE list
        n        == Len(appended)
    IN  IF n > 1
        THEN [appended EXCEPT ![n] = SetReplaces(appended[n], appended[n - 1].name)]
        ELSE appended

\* the loop `for y in b.yamls` of _load_entries
RECURSIVE AddEntries(_, _)
AddEntries(list, yamls) ==
    IF yamls = <<>> THEN list
    ELSE AddEntries(AddEntry(list, Head(yamls)), Tail(yamls))

-----------------------------------------------------------------------------
(* The inputs explored *)

\* the string of a version
VersionString(prefix, major, minor, patch) ==
    Repr(ImageVersion(prefix, SemVer(major, minor, patch)))

PatternPlain == <<"i", ":", Placeholder>>

PatternV == <<"i", ":", "v", Placeholder>>

\* no `to`, default failure budget
SpecOpen ==
    [pattern |-> PatternPlain, from |-> VersionString(<<"v">>, 1, 0, 0)]

\* `to` in the series of `from`, a skipped version, no failure tolerated
SpecRange ==
    [pattern |-> PatternPlain, from |-> VersionString(<<"v">>, 1, 0, 0),
     to |-> VersionString(<<"v">>, 1, 0, 2), failures |-> 0,
     skip |-> <<VersionString(<<"v">>, 1, 0, 1)>>]

\* `to` in a later minor series than `from`; the images are those of
\* PatternPlain with prefixed versions
SpecMinor ==
    [pattern |-> PatternV, from |-> VersionString(<<>>, 1, 0, 1),
     to |-> VersionString(<<>>, 1, 1, 0), failures |-> 0]

\* a `from` that is no version
SpecMalformed ==
    [pattern |-> PatternPlain, from |-> <<"v", "1", ".", "0">>]

\* a `to` that the regular expression of ImageVersion.parse does not match
SpecMalformedTo ==
    [pattern |-> PatternPlain, from |-> VersionString(<<"v">>, 1, 0, 0),
     to |-> <<"l", "a", "t", "e", "s", "t">>]

\* the pattern whose images at 0.0.x are those of PatternPlain at v10.0.x
PatternTen == <<"i", ":", "v", "1", Placeholder>>

\* a single version
SpecTen ==
    [pattern |-> PatternPlain, from |-> VersionString(<<"v">>, 10, 0, 0),
     to |-> VersionString(<<"v">>, 10, 0, 0), failures |-> 0]

\* a single version, whose image is that of SpecTen
SpecZero ==
    [pattern |-> PatternTen, from |-> VersionString(<<>>, 0, 0, 0),
     to |-> VersionString(<<>>, 0, 0, 0), failures |-> 0]

Prologue == <<Top("schema: olm.channel"), NL, Top("name: stable"), NL>>

Epilogue == <<Top("package: p"), NL>>

RECURSIVE ItemLines(_)
ItemLines(specs) ==
    IF specs = <<>> THEN <<>>
    ELSE <<Item(Head(specs)), NL>> \o ItemLines(Tail(specs))

\* a channel document with a directive listing specs
DirectiveDoc(specs) == Prologue \o <<Marker, NL>> \o ItemLines(specs) \o Epilogue

\* a channel document without `_versions:`
NoDirectiveDoc == Prologue \o Epilogue

\* a channel document with `_versions: []`
EmptyDirectiveDoc == Prologue \o <<Marker, Flow, NL>> \o Epilogue

\* a channel document with two lines that begin with `_versions:`
TwoDirectiveDoc ==
    Prologue \o <<Marker, NL>> \o ItemLines(<<SpecOpen>>)
        \o <<Marker, NL>> \o ItemLines(<<SpecTen>>) \o Epilogue

ChannelDocs ==
    { NoDirectiveDoc, EmptyDirectiveDoc, TwoDirectiveDoc,
      DirectiveDoc(<<SpecOpen>>),
      DirectiveDoc(<<SpecRange, SpecMinor>>),
      DirectiveDoc(<<SpecMinor, SpecOpen>>),
      DirectiveDoc(<<SpecRange, SpecMalformed>>),
      DirectiveDoc(<<SpecMalformedTo, SpecOpen>>),
      DirectiveDoc(<<SpecTen, SpecZero>>) }

-----------------------------------------------------------------------------
(* BundleVersion.enumerate, piecewise *)

\* the loop stops when the budget reaches zero
LoopConditionPositive(f, last, current) ==
    f > 0 /\ (IF last = None THEN TRUE ELSE Le(current, last))

\* the condition of the while loop
LoopCondition(f, last, current) ==
    f >= 0 /\ (IF last = None THEN TRUE ELSE Le(current, last))

\* the skip list is compared with the version without its prefix
NotSkippedNoPrefix(current, skip) == VerStr(current.ver) \notin skip

\* `str(current_version) not in to_skip`
NotSkipped(current, skip) == Repr(current) \notin skip

\* docker_image_name
ImageName(pat, current) == Substitute(pat, Repr(current))

\* a failure that is not charged to the budget
AfterFailureFree(f) == f

\* `failures = failures - 1`
AfterFailure(f) == f - 1

\* a success that is not counted
AfterSuccessLost(n) == n

\* `successes = successes + 1`
AfterSuccess(n) == n + 1

\* `cls._load_cache[docker_image_name] = ...`
CachePut(cache, key, value) ==
    IF CacheHas(cache, key)
    THEN [i \in 1..Len(cache) |->
              IF cache[i].key = key THEN [key |-> key, value |-> value]
              ELSE cache[i]]
    ELSE Append(cache, [key |-> key, value |-> value])

\* `raise` of an exception that nothing catches
Raise(exn) ==
    /\ pc' = "aborted"
    /\ error' = exn

ValueError(msg) == [exn |-> "ValueError", msg |-> msg]

\* the ValueError of ImageVersion.parse for a string it does not accept:
\* that of line 258, or that of semver for group 2 of the match
ParseError(version_string) ==
    IF ~Matched(version_string)
    THEN ValueError([text |-> "Unable to parse f{version_string}"])
    ELSE ValueError([text |-> "is not valid SemVer string",
                     version |-> IF /\ Len(version_string) >= 1
                                    /\ version_string[1] = "v"
                                 THEN Tail(version_string) ELSE version_string])

\* the version string of versions_info that ImageVersion.parse does not
\* accept: `from` is parsed before `to`
Malformed(versions_info) ==
    IF ~CanParse(versions_info.from) THEN versions_info.from
    ELSE versions_info.to

\* whether enumerate fails to parse `from` or `to`
IsMalformed(versions_info) ==
    \/ ~CanParse(versions_info.from)
    \/ "to" \in DOMAIN versions_info /\ ~CanParse(versions_info.to)

TypeError(msg) == [exn |-> "TypeError", msg |-> msg]

FileNotFoundError == [exn |-> "FileNotFoundError"]

OpmFailed == [exn |-> "CalledProcessError"]

\* the message of the ValueError that ends enumerate without success
NoVersionFound(pat, first) ==
    ValueError([text |-> "No single image could be found!",
                pattern |-> pat, from |-> Repr(first)])

-----------------------------------------------------------------------------
(* The program *)

\* the locals of enumerate and the histories of one spec
enum_vars == <<pattern, first_version, last_version, to_skip, failures,
               successes, current_version, budget, probed, yielded>>

\* the attributes and locals of the channel being expanded
channel_vars == <<_yaml_unexpanded, olm_channel_yaml, warned, versions, vi,
                  entries>>

\* the cache and the histories of BundleVersion.load
load_vars == <<_load_cache, opm_calls, observed, fresh_walks>>

\* no generator frame of enumerate exists
NoEnumeration ==
    /\ pattern' = <<>>
    /\ first_version' = None
    /\ last_version' = None
    /\ to_skip' = {}
    /\ failures' = 0
    /\ successes' = 0
    /\ current_version' = None
    /\ budget' = 0
    /\ probed' = <<>>
    /\ yielded' = <<>>

Init ==
    /\ pc = "render"
    /\ has_opm \in BOOLEAN
    /\ inputs_read = 0
    /\ channels_read = 0
    /\ _yaml_unexpanded = <<>>
    /\ olm_channel_yaml = None
    /\ warned = FALSE
    /\ versions = None
    /\ vi = 0
    /\ entries = <<>>
    /\ pattern = <<>>
    /\ first_version = None
    /\ last_version = None
    /\ to_skip = {}
    /\ failures = 0
    /\ successes = 0
    /\ current_version = None
    /\ _load_cache = <<>>
    /\ out = <<>>
    /\ error = NoError
    /\ opm_calls = <<>>
    /\ observed = {}
    /\ budget = 0
    /\ probed = <<>>
    /\ yielded = <<>>
    /\ fresh_walks = {}
    /\ last_answer = None

\* Catalogger.render, lines 48-50: the next input file is read and its
\* package document written
OpenInput ==
    /\ pc = "render"
    /\ last_answer' = None
    /\ inputs_read < MaxInputs
    /\ inputs_read' = inputs_read + 1
    /\ out' = Append(out, [doc |-> "package", input |-> inputs_read + 1])
    /\ pc' = "channels"
    /\ UNCHANGED <<has_opm, channels_read, error>>
    /\ UNCHANGED <<channel_vars, enum_vars, load_vars>>

\* OlmPackageParser.channels finds no further channel document in the file
EndOfInput ==
    /\ pc = "channels"
    /\ last_answer' = None
    /\ pc' = "render"
    /\ UNCHANGED <<has_opm, inputs_read, channels_read, out, error>>
    /\ UNCHANGED <<channel_vars, enum_vars, load_vars>>

\* OlmChannelParser.__init__ and _load_entries up to the first turn of
\* `for version in versions` (lines 192-226)
ChannelStart ==
    /\ pc = "channels"
    /\ last_answer' = None
    /\ channels_read < MaxChannels
    /\ \E text \in ChannelDocs :
        LET loaded == image_versions(text)
        IN  /\ _yaml_unexpanded' = text
            /\ versions' = loaded
            /\ warned' = ~Truthy(loaded)
            /\ olm_channel_yaml' = IF ~Truthy(loaded) THEN Str(text) ELSE None
            /\ entries' = <<>>
            /\ IF loaded = None
               THEN /\ Raise(TypeError([text |-> "'NoneType' object is not iterable"]))
                    /\ vi' = 0
               ELSE IF loaded.items = <<>>
               THEN /\ pc' = "assemble"
                    /\ vi' = 0
                    /\ UNCHANGED error
               ELSE /\ pc' = "enumerate"
                    /\ vi' = 1
                    /\ UNCHANGED error
    /\ channels_read' = channels_read + 1
    /\ UNCHANGED <<has_opm, inputs_read, out>>
    /\ UNCHANGED <<enum_vars, load_vars>>

\* a spec with a malformed version is passed over: the consumer goes on with
\* the next spec of the list
EnumStartLenient ==
    /\ pc = "enumerate"
    /\ last_answer' = None
    /\ LET versions_info == versions.items[vi]
       IN  IF IsMalformed(versions_info)
           THEN /\ UNCHANGED enum_vars
                /\ UNCHANGED error
                /\ pc' = "after_loop"
           ELSE /\ pattern' = versions_info.pattern
                /\ first_version' = parse(versions_info.from)
                /\ failures' = Get(versions_info, "failures", 1)
                /\ budget' = Get(versions_info, "failures", 1)
                /\ last_version' = IF "to" \in DOMAIN versions_info
                                   THEN parse(versions_info.to) ELSE None
                /\ to_skip' = LET skip == Get(versions_info, "skip", <<>>)
                              IN  {skip[i] : i \in 1..Len(skip)}
                /\ current_version' = parse(versions_info.from)
                /\ successes' = 0
                /\ probed' = <<>>
                /\ yielded' = <<>>
                /\ pc' = "loop"
                /\ UNCHANGED error
    /\ UNCHANGED <<has_opm, inputs_read, channels_read, out>>
    /\ UNCHANGED <<channel_vars, load_vars>>

\* BundleVersion.enumerate, lines 347-358
EnumStart ==
    /\ pc = "enumerate"
    /\ last_answer' = None
    /\ LET versions_info == versions.items[vi]
       IN  IF IsMalformed(versions_info)
           THEN /\ Raise(ParseError(Malformed(versions_info)))
                /\ UNCHANGED enum_vars
           ELSE /\ pattern' = versions_info.pattern
                /\ first_version' = parse(versions_info.from)
                /\ failures' = Get(versions_info, "failures", 1)
                /\ budget' = Get(versions_info, "failures", 1)
                /\ last_version' = IF "to" \in DOMAIN versions_info
                                   THEN parse(versions_info.to) ELSE None
                /\ to_skip' = LET skip == Get(versions_info, "skip", <<>>)
                              IN  {skip[i] : i \in 1..Len(skip)}
                /\ current_version' = parse(versions_info.from)
                /\ successes' = 0
                /\ probed' = <<>>
                /\ yielded' = <<>>
                /\ pc' = "loop"
                /\ UNCHANGED error
    /\ UNCHANGED <<has_opm, inputs_read, channels_read, out>>
    /\ UNCHANGED <<channel_vars, load_vars>>

\* the loop of enumerate takes another turn
Turn ==
    /\ pc = "loop"
    /\ LoopCondition(failures, last_version, current_version)
    /\ current_version.ver.patch <= MaxPatch

\* a skipped version that is charged to the budget
IterSkipCharged ==
    /\ Turn
    /\ last_answer' = None
    /\ ~NotSkipped(current_version, to_skip)
    /\ current_version' = inc_patchlevel(current_version)
    /\ failures' = failures - 1
    /\ UNCHANGED <<pc, has_opm, inputs_read, channels_read, out, error>>
    /\ UNCHANGED <<pattern, first_version, last_version, to_skip,
                   successes, budget, probed, yielded>>
    /\ UNCHANGED <<channel_vars, load_vars>>

\* lines 359-360, 372: the cursor is in `skip`
IterSkip ==
    /\ Turn
    /\ last_answer' = None
    /\ ~NotSkipped(current_version, to_skip)
    /\ current_version' = inc_patchlevel(current_version)
    /\ UNCHANGED <<pc, has_opm, inputs_read, channels_read, out, error>>
    /\ UNCHANGED <<pattern, first_version, last_version, to_skip, failures,
                   successes, budget, probed, yielded>>
    /\ UNCHANGED <<channel_vars, load_vars>>

\* lines 364-372 and the body of the consumer's loop (lines 231-238): what
\* enumerate and _load_entries do with the result of BundleVersion.load
Account(docker_image_name, bundle_version, fresh) ==
    /\ observed' = observed \cup {<<docker_image_name, bundle_version>>}
    /\ probed' = Append(probed, [version |-> current_version,
                                 image |-> docker_image_name,
                                 fresh |-> fresh,
                                 ok |-> bundle_version # None])
    /\ IF bundle_version = None
       THEN /\ failures' = AfterFailure(failures)
            /\ UNCHANGED <<successes, yielded, entries>>
       ELSE /\ successes' = AfterSuccess(successes)
            /\ yielded' = Append(yielded, [version |-> current_version,
                                           bundle |-> bundle_version])
            /\ entries' = AddEntries(entries, bundle_version.yamls)
            /\ UNCHANGED failures
    /\ current_version' = inc_patchlevel(current_version)
    /\ UNCHANGED <<pc, error>>

\* a lookup answered from the cache, whose failure is not charged to the
\* budget
IterCachedFree ==
    /\ Turn
    /\ last_answer' = None
    /\ NotSkipped(current_version, to_skip)
    /\ LET docker_image_name == ImageName(pattern, current_version)
           bundle_version == CacheGet(_load_cache, docker_image_name)
       IN  /\ ~MustLoad(_load_cache, docker_image_name)
           /\ probed' = Append(probed, [version |-> current_version,
                                        image |-> docker_image_name,
                                        fresh |-> FALSE,
                                        ok |-> bundle_version # None])
           /\ IF bundle_version = None
              THEN UNCHANGED <<failures, successes, yielded, entries>>
              ELSE /\ successes' = AfterSuccess(successes)
                   /\ yielded' = Append(yielded, [version |-> current_version,
                                                  bundle |-> bundle_version])
                   /\ entries' = AddEntries(entries, bundle_version.yamls)
                   /\ UNCHANGED failures
    /\ current_version' = inc_patchlevel(current_version)
    /\ UNCHANGED <<pc, error>>
    /\ UNCHANGED <<has_opm, inputs_read, channels_read, out>>
    /\ UNCHANGED <<pattern, first_version, last_version, to_skip, budget>>
    /\ UNCHANGED <<_yaml_unexpanded, olm_channel_yaml, warned, versions, vi>>
    /\ UNCHANGED load_vars

\* lines 361-372 when BundleVersion.load finds the image name in the cache
IterCached ==
    /\ Turn
    /\ last_answer' = None
    /\ NotSkipped(current_version, to_skip)
    /\ LET docker_image_name == ImageName(pattern, current_version)
       IN  /\ ~MustLoad(_load_cache, docker_image_name)
           /\ Account(docker_image_name,
                      CacheGet(_load_cache, docker_image_name), FALSE)
    /\ UNCHANGED <<has_opm, inputs_read, channels_read, out>>
    /\ UNCHANGED <<pattern, first_version, last_version, to_skip, budget>>
    /\ UNCHANGED <<_yaml_unexpanded, olm_channel_yaml, warned, versions, vi>>
    /\ UNCHANGED load_vars

\* lines 361-372 when BundleVersion.load calls _do_load, which runs the renderer
IterFresh ==
    /\ Turn
    /\ NotSkipped(current_version, to_skip)
    /\ has_opm
    /\ LET docker_image_name == ImageName(pattern, current_version)
       IN  /\ MustLoad(_load_cache, docker_image_name)
           /\ \E opm_rendered \in RendererAnswers(docker_image_name, current_version) :
               LET bundle_version == _do_load(opm_rendered, current_version)
               IN  /\ _load_cache' = CachePut(_load_cache, docker_image_name,
                                              bundle_version)
                   /\ opm_calls' = Append(opm_calls, docker_image_name)
                   /\ UNCHANGED fresh_walks
                   /\ last_answer' = opm_rendered
                   /\ Account(docker_image_name, bundle_version, TRUE)
    /\ UNCHANGED <<has_opm, inputs_read, channels_read, out>>
    /\ UNCHANGED <<pattern, first_version, last_version, to_skip, budget>>
    /\ UNCHANGED <<_yaml_unexpanded, olm_channel_yaml, warned, versions, vi>>

\* line 100 without `opm` on the PATH: subprocess.run raises FileNotFoundError,
\* which _do_load does not catch
IterNoOpm ==
    /\ Turn
    /\ last_answer' = None
    /\ NotSkipped(current_version, to_skip)
    /\ ~has_opm
    /\ MustLoad(_load_cache, ImageName(pattern, current_version))
    /\ Raise(FileNotFoundError)
    /\ UNCHANGED <<has_opm, inputs_read, channels_read, out>>
    /\ UNCHANGED <<channel_vars, enum_vars, load_vars>>

\* what an enumeration did: the outcome of each lookup, what was yielded,
\* and where the loop ended
Walk ==
    [versions_info |-> versions.items[vi],
     outcomes |-> [i \in 1..Len(probed) |->
                      [version |-> probed[i].version, ok |-> probed[i].ok]],
     yielded |-> yielded,
     current_version |-> current_version,
     failures |-> failures,
     successes |-> successes]

\* line 359: the condition of the loop is false
LoopExit ==
    /\ pc = "loop"
    /\ last_answer' = None
    /\ ~LoopCondition(failures, last_version, current_version)
    /\ pc' = "after_loop"
    /\ fresh_walks' = IF probed # <<>> /\ \A i \in 1..Len(probed) : probed[i].fresh
                      THEN fresh_walks \cup {Walk} ELSE fresh_walks
    /\ UNCHANGED <<has_opm, inputs_read, channels_read, out, error>>
    /\ UNCHANGED <<_load_cache, opm_calls, observed>>
    /\ UNCHANGED <<channel_vars, enum_vars>>

\* the consumer goes on to the next spec while the loop of enumerate could
\* take another turn
EnumEndEarly ==
    /\ pc \in {"loop", "after_loop"}
    /\ last_answer' = None
    /\ IF successes = 0
       THEN /\ Raise(NoVersionFound(pattern, first_version))
            /\ UNCHANGED enum_vars
            /\ UNCHANGED vi
       ELSE /\ NoEnumeration
            /\ UNCHANGED error
            /\ IF vi < Len(versions.items)
               THEN /\ vi' = vi + 1
                    /\ pc' = "enumerate"
               ELSE /\ pc' = "assemble"
                    /\ UNCHANGED vi
    /\ UNCHANGED <<has_opm, inputs_read, channels_read, out>>
    /\ UNCHANGED <<_yaml_unexpanded, olm_channel_yaml, warned, versions, entries>>
    /\ UNCHANGED load_vars

\* lines 374-377, and the next turn of `for version in versions` (line 226)
EnumEnd ==
    /\ pc = "after_loop"
    /\ last_answer' = None
    /\ IF successes = 0
       THEN /\ Raise(NoVersionFound(pattern, first_version))
            /\ UNCHANGED enum_vars
            /\ UNCHANGED vi
       ELSE /\ NoEnumeration
            /\ UNCHANGED error
            /\ IF vi < Len(versions.items)
               THEN /\ vi' = vi + 1
                    /\ pc' = "enumerate"
               ELSE /\ pc' = "assemble"
                    /\ UNCHANGED vi
    /\ UNCHANGED <<has_opm, inputs_read, channels_read, out>>
    /\ UNCHANGED <<_yaml_unexpanded, olm_channel_yaml, warned, versions, entries>>
    /\ UNCHANGED load_vars

\* lines 240-245, then line 52 of Catalogger.render
Assemble ==
    /\ pc = "assemble"
    /\ last_answer' = None
    /\ olm_channel_yaml' = Str(Expanded(_yaml_unexpanded, entries))
    /\ out' = Append(out, [doc |-> "channel",
                           yaml_string |-> Expanded(_yaml_unexpanded, entries)])
    /\ pc' = "channels"
    /\ UNCHANGED <<has_opm, inputs_read, channels_read, error>>
    /\ UNCHANGED <<_yaml_unexpanded, warned, versions, vi, entries>>
    /\ UNCHANGED <<enum_vars, load_vars>>

\* the documents lines 54-56 write: the records of every loaded bundle, in
\* the order of the cache
RECURSIVE BundleDocs(_)
BundleDocs(loaded) ==
    IF loaded = <<>> THEN <<>>
    ELSE [i \in 1..Len(Head(loaded).value.yamls) |->
              [doc |-> "bundle", image |-> Head(loaded).key,
               yaml_string |-> Head(loaded).value.yamls[i]]]
             \o BundleDocs(Tail(loaded))

\* Catalogger.render, lines 54-56, after the last input file
EmitBundles ==
    /\ pc = "render"
    /\ last_answer' = None
    /\ out' = out \o BundleDocs(all_loaded(_load_cache))
    /\ pc' = "rendered"
    /\ UNCHANGED <<has_opm, inputs_read, channels_read, error>>
    /\ UNCHANGED <<channel_vars, enum_vars, load_vars>>

\* lines 405-406: Catalogger.validate; run_opm checks the exit status
Validate ==
    /\ pc = "rendered"
    /\ last_answer' = None
    /\ has_opm
    /\ \E ok \in BOOLEAN :
        IF ok THEN pc' = "validated" /\ UNCHANGED error
        ELSE Raise(OpmFailed)
    /\ UNCHANGED <<has_opm, inputs_read, channels_read, out>>
    /\ UNCHANGED <<channel_vars, enum_vars, load_vars>>

\* line 407: Catalogger.cacheify
Cacheify ==
    /\ pc = "validated"
    /\ last_answer' = None
    /\ \E ok \in BOOLEAN :
        IF ok THEN pc' = "exit" /\ UNCHANGED error
        ELSE Raise(OpmFailed)
    /\ UNCHANGED <<has_opm, inputs_read, channels_read, out>>
    /\ UNCHANGED <<channel_vars, enum_vars, load_vars>>

\* line 405 without `opm` on the PATH
SkipOpm ==
    /\ pc = "rendered"
    /\ last_answer' = None
    /\ ~has_opm
    /\ pc' = "exit"
    /\ UNCHANGED <<has_opm, inputs_read, channels_read, out, error>>
    /\ UNCHANGED <<channel_vars, enum_vars, load_vars>>

Next ==
    \/ OpenInput
    \/ EndOfInput
    \/ ChannelStart
    \/ EnumStart
    \/ IterSkip
    \/ IterCached
    \/ IterFresh
    \/ IterNoOpm
    \/ LoopExit
    \/ EnumEnd
    \/ Assemble
    \/ EmitBundles
    \/ Validate
    \/ Cacheify
    \/ SkipOpm

Spec == Init /\ [][Next]_vars

\* the test of the condition of the while loop of enumerate, and a turn of it
LoopStep == IterSkip \/ IterCached \/ IterFresh \/ IterNoOpm \/ LoopExit

\* the thread is not suspended for ever in the loop of enumerate: the
\* renderer answers, and the loop then tests its condition again
FairSpec == Spec /\ WF_vars(LoopStep)

-----------------------------------------------------------------------------
(* Properties *)

\* the number of failed lookups of a log
RECURSIVE Failed(_)
Failed(log) ==
    IF log = <<>> THEN 0
    ELSE (IF Head(log).ok THEN 0 ELSE 1) + Failed(Tail(log))

\* the length of the run of failed lookups that ends a log
RECURSIVE TrailingFailures(_)
TrailingFailures(log) ==
    IF log = <<>> \/ log[Len(log)].ok THEN 0
    ELSE 1 + TrailingFailures(SubSeq(log, 1, Len(log) - 1))

\* the cursor is beyond `to`
ToExceeded == last_version # None /\ ~Le(current_version, last_version)

\* C1: a lookup is issued only while fewer than budget+1 lookups of the spec
\* have failed and the cursor is not beyond `to`; the loop ends only when
\* budget+1 lookups have failed or the cursor is beyond `to`; the failures
\* that immediately precede the end number at most budget+1.
C1_BudgetInvariant ==
    /\ \A i \in 1..Len(probed) :
        /\ Failed(SubSeq(probed, 1, i - 1)) <= budget
        /\ last_version # None => Le(probed[i].version, last_version)
    /\ pc = "after_loop" => (Failed(probed) = budget + 1 \/ ToExceeded)
    /\ pc = "after_loop" => TrailingFailures(probed) <= budget + 1

\* a spec that tolerates a failure ends on its budget after a success
C1_Witness ==
    /\ pc = "after_loop"
    /\ budget >= 1
    /\ Failed(probed) = budget + 1
    /\ successes >= 1
    /\ ~ToExceeded

\* the chain of `replaces` of a list of entries
Chain(list) ==
    \A i \in 1..Len(list) :
        IF i = 1 THEN DOMAIN list[i] = {"name"}
        ELSE /\ DOMAIN list[i] = {"name", "replaces"}
             /\ list[i].replaces = list[i - 1].name

\* the names of the olm.bundle records of the bundles of a log of yields
RECURSIVE BundleNames(_)
BundleNames(log) ==
    IF log = <<>> THEN <<>>
    ELSE LET bundles == SelectSeq(Head(log).bundle.yamls,
                                  LAMBDA y : y.schema = "olm.bundle")
         IN  [i \in 1..Len(bundles) |-> bundles[i].name]
                 \o BundleNames(Tail(log))

\* the lists of entries of the channel documents written so far
WrittenEntries ==
    UNION { { out[i].yaml_string[j].entries :
                j \in {k \in 1..Len(out[i].yaml_string) :
                          out[i].yaml_string[k].t = "dump"} } :
            i \in {k \in 1..Len(out) : out[k].doc = "channel"} }

\* C2: in the entries of a channel, over all its specs in directive order,
\* the first entry has no `replaces` and every later entry replaces the entry
\* just before it; the entries end with the bundles of the current spec in
\* the order of their discovery.
C2_ChainInvariant ==
    /\ Chain(entries)
    /\ \A list \in WrittenEntries : Chain(list)
    /\ pc \in {"loop", "after_loop"} =>
        LET names == BundleNames(yielded)
        IN  /\ Len(names) <= Len(entries)
            /\ \A i \in 1..Len(names) :
                entries[Len(entries) - Len(names) + i].name = names[i]

\* the first bundle of the second spec of a channel has been linked to the
\* last entry of the first spec
C2_Witness ==
    /\ pc = "loop"
    /\ vi = 2
    /\ Len(yielded) = 1
    /\ Len(BundleNames(yielded)) = 1
    /\ Len(entries) >= 2

\* C3: the renderer is invoked at most once for an image name, and all the
\* calls of BundleVersion.load for an image name return the same result.
C3_CacheIdempotence ==
    /\ \A i, j \in 1..Len(opm_calls) : opm_calls[i] = opm_calls[j] => i = j
    /\ \A a, b \in observed : a[1] = b[1] => a[2] = b[2]

\* a lookup has been answered from the cache in a later channel
C3_Witness ==
    /\ channels_read = 2
    /\ Len(probed) >= 2
    /\ ~probed[1].fresh /\ ~probed[1].ok
    /\ ~probed[2].fresh /\ probed[2].ok

\* strictly smaller by (major, minor, patch)
Lt(self, other) == Le(self, other) /\ ~Le(other, self)

\* C4: the cursors at which a spec yields are strictly increasing by
\* (major, minor, patch), and none of them is written in `skip`.
C4_OrderingInvariant ==
    /\ \A i \in 1..(Len(yielded) - 1) :
        Lt(yielded[i].version, yielded[i + 1].version)
    /\ \A i \in 1..Len(yielded) : Repr(yielded[i].version) \notin to_skip

\* a spec has yielded before and after a skipped version
C4_Witness ==
    /\ Len(yielded) = 2
    /\ \E s \in to_skip :
        /\ CanParse(s)
        /\ Lt(yielded[1].version, parse(s))
        /\ Lt(parse(s), yielded[2].version)

\* `to` is in the series of `from` or in an earlier one: its (major, minor)
\* is not above that of `from`
ToInSeries ==
    /\ last_version # None
    /\ \/ last_version.ver.major < first_version.ver.major
       \/ /\ last_version.ver.major = first_version.ver.major
          /\ last_version.ver.minor <= first_version.ver.minor

\* the cursor n patch levels ahead
RECURSIVE Ahead(_, _)
Ahead(version, n) ==
    IF n = 0 THEN version ELSE Ahead(inc_patchlevel(version), n - 1)

\* C5 as claimed, for the renderer that always succeeds: the budget then
\* stays as it is, so the enumeration of a spec that has a `to` ends only
\* if the cursor gets beyond `to`, some patch levels ahead.
C5_Original ==
    (pc = "loop" /\ last_version # None) =>
        \E n \in 0..(MaxPatch + 1) : ~Le(Ahead(current_version, n), last_version)

\* C5 as amended: the enumeration of a spec ends whatever the renderer
\* answers when `to` is given with a (major, minor) not above that of `from`;
\* any other enumeration ends only when budget+1 lookups have failed, and
\* does end once they have.
C5_Termination ==
    /\ (pc = "loop" /\ (ToInSeries \/ Failed(probed) = budget + 1))
           ~> (pc # "loop")
    /\ [](pc = "after_loop" /\ ~ToInSeries => Failed(probed) = budget + 1)

\* an enumeration was ended by `to` after nothing but successes
C5_Witness ==
    /\ pc = "after_loop"
    /\ ToInSeries
    /\ ToExceeded
    /\ Len(probed) >= 2
    /\ Failed(probed) = 0

\* C6: a channel document without directive, or with an empty one, is
\* expanded without error, with a warning, into the unmodified text.
C6_PassThrough ==
    (channels_read > 0 /\ ~Truthy(versions)) =>
        /\ warned
        /\ error = NoError
        /\ olm_channel_yaml = Str(_yaml_unexpanded)
        /\ (pc = "channels" /\ out[Len(out)].doc = "channel") =>
            out[Len(out)].yaml_string = _yaml_unexpanded

\* C7: the loop of enumerate is followed by the ValueError that names the
\* pattern and `from` exactly when no lookup of the spec succeeded; the error
\* ends the run: nothing is enumerated or written afterwards, no record of a
\* bundle has been written, validate and cacheify are not run.
C7_NoVersionFound ==
    /\ [][/\ pc = "after_loop" =>
              IF \A i \in 1..Len(probed) : ~probed[i].ok
              THEN /\ error' = NoVersionFound(pattern, first_version)
                   /\ pc' = "aborted"
              ELSE /\ error' = NoError
                   /\ pc' \in {"enumerate", "assemble"}
          /\ error'.exn = "ValueError" /\ error = NoError =>
              pc \in {"after_loop", "enumerate"}
          /\ pc = "aborted" => FALSE]_vars
    /\ [](error.exn = "ValueError" =>
            /\ pc = "aborted"
            /\ \A i \in 1..Len(out) : out[i].doc # "bundle")

\* the second spec of the second channel found no version, after failures
C7_Witness ==
    /\ pc = "aborted"
    /\ first_version # None
    /\ error = NoVersionFound(pattern, first_version)
    /\ channels_read = 2
    /\ vi = 2
    /\ Len(probed) >= 1
    /\ \E i \in 1..Len(out) : out[i].doc = "channel"

\* the versions the records of an answer declare as their package version
Declared(opm_rendered) ==
    UNION { { y.properties[j].value.version :
                j \in {k \in 1..Len(y.properties) :
                          y.properties[k].type = "olm.package"} } :
            y \in {opm_rendered.stdout[i] : i \in 1..Len(opm_rendered.stdout)} }

\* the three cases in which an answer of the renderer is a failure
RendererError(opm_rendered) == opm_rendered.returncode # 0

NoPackageVersion(opm_rendered) ==
    opm_rendered.returncode = 0 /\ Declared(opm_rendered) = {}

VersionMismatch(opm_rendered, expected_version) ==
    /\ opm_rendered.returncode = 0
    /\ \E v \in Declared(opm_rendered) : v # expected_version.ver

C9_SkipFrame ==
    [][(/\ pc = "loop"
        /\ failures >= 0
        /\ ~ToExceeded
        /\ Repr(current_version) \in to_skip)
       => /\ UNCHANGED <<failures, successes, _load_cache, opm_calls, observed,
                         probed, yielded, entries, pc, error>>
          /\ current_version'.prefix = current_version.prefix
          /\ current_version'.ver.major = current_version.ver.major
          /\ current_version'.ver.minor = current_version.ver.minor
          /\ current_version'.ver.patch = current_version.ver.patch + 1]_vars

\* the cursor has just passed a version written in `skip`
C9_Witness ==
    /\ pc = "loop"
    /\ current_version.ver.patch >= 1
    /\ Repr([current_version EXCEPT !.ver.patch = @ - 1]) \in to_skip
    /\ Len(probed) = 1

\* the loop was ended by the budget, not by `to`
StoppedByBudget == pc = "after_loop" /\ ~ToExceeded

\* C10 as claimed: the budget stops an enumeration only after more than
\* `budget` failed lookups in a row.
C10_Original == StoppedByBudget => TrailingFailures(probed) > budget

\* C10 as amended: the budget counts all the failed lookups of a spec,
\* consecutive or not: what is left of it is the initial budget less the
\* number of failed lookups so far, and a success gives nothing back.
C10_TotalFailures ==
    pc \in {"loop", "after_loop"} => failures = budget - Failed(probed)

\* the budget ended an enumeration whose failures were separated by a success
C10_Witness ==
    /\ StoppedByBudget
    /\ Failed(probed) = budget + 1
    /\ TrailingFailures(probed) <= budget

-----------------------------------------------------------------------------
(* Properties of the expansion of a channel document *)

\* a channel document has just been written from the expansion of a directive
ExpansionWritten ==
    /\ pc = "channels"
    /\ versions # None
    /\ Len(out) > 0
    /\ out[Len(out)].doc = "channel"

\* the positions at which a text can be cut in a part that ends before p and
\* a part that begins at e, the directive lying between them
Cuts(text) ==
    {c \in (1..Len(text)) \X (1..(Len(text) + 1)) :
        c[1] < c[2] /\ text[c[1]] = Marker}

\* C11 as claimed: the written document is a part of the input text that
\* ends where a directive begins, then "entries:\n", the serialized entries,
\* "\n", and the rest of the input text after the directive: nothing else.
C11_Original ==
    (ExpansionWritten /\ entries # <<>>) =>
        \E c \in Cuts(_yaml_unexpanded) :
            out[Len(out)].yaml_string =
                SubSeq(_yaml_unexpanded, 1, c[1] - 1)
                    \o <<Top("entries:"), NL, Dump(entries), NL>>
                    \o SubSeq(_yaml_unexpanded, c[2], Len(_yaml_unexpanded))

\* C11 as amended: the written document is "\n", the text before a directive,
\* "\n", "entries:\n", the serialized entries, "\n", the text after the
\* directive, "\n"; the two parts of the input text are copied unchanged, and
\* the attribute olm_channel_yaml holds the same document.
C11_RoundTrip ==
    ExpansionWritten =>
        /\ \E c \in Cuts(_yaml_unexpanded) :
            out[Len(out)].yaml_string =
                <<NL>> \o SubSeq(_yaml_unexpanded, 1, c[1] - 1)
                    \o <<NL, Top("entries:"), NL, Dump(entries), NL>>
                    \o SubSeq(_yaml_unexpanded, c[2], Len(_yaml_unexpanded))
                    \o <<NL>>
        /\ olm_channel_yaml = Str(out[Len(out)].yaml_string)

\* a document with a prologue, two entries and an epilogue has been written
C11_Witness ==
    /\ ExpansionWritten
    /\ Len(entries) >= 2
    /\ yaml_prologue_string(_yaml_unexpanded) # <<>>
    /\ yaml_epilogue_string(_yaml_unexpanded) # <<>>

\* the three parts of a text when it is split at the first line that begins
\* with `_versions:`, the directive ending at the first later line that
\* begins with a letter
SplitAtFirst(text) ==
    LET markers == {i \in 1..Len(text) : text[i] = Marker /\ LineStart(text, i)}
        m    == CHOOSE i \in markers : \A j \in markers : i <= j
        tops == {e \in (m + 1)..Len(text) :
                     text[e].t = "top" /\ LineStart(text, e)}
        e    == IF tops = {} THEN Len(text) + 1
                ELSE CHOOSE i \in tops : \A j \in tops : i <= j
    IN  [prologue  |-> SubSeq(text, 1, m - 1),
         directive |-> SubSeq(text, m + 1, e - 1),
         epilogue  |-> SubSeq(text, e, Len(text))]

\* C12: a channel document with lines that begin with `_versions:` is split
\* at the first of them: the prologue is the text before it, the directive
\* runs to the first later line that begins a top-level record, the epilogue
\* is the rest.
C12_FirstMarker ==
    (channels_read > 0 /\ _parsed(_yaml_unexpanded) # None) =>
        /\ yaml_prologue_string(_yaml_unexpanded)
               = SplitAtFirst(_yaml_unexpanded).prologue
        /\ _parsed(_yaml_unexpanded).g2
               = SplitAtFirst(_yaml_unexpanded).directive
        /\ yaml_epilogue_string(_yaml_unexpanded)
               = SplitAtFirst(_yaml_unexpanded).epilogue

-----------------------------------------------------------------------------
(* Properties of the cache, of the order of the lookups and of the output *)

\* C13: every bundle that enumerate yields at a cursor declares a package
\* version equal to the (major, minor, patch) of the cursor, whether the
\* result of the lookup comes from the renderer or from the cache.
C13_YieldedVersion ==
    \A i \in 1..Len(yielded) :
        LET declared == PackageVersions(yielded[i].bundle.yamls)
        IN  /\ declared # <<>>
            /\ declared[1] = yielded[i].version.ver

\* C14: the expansion of a channel never ends with an empty list of entries:
\* the entries block is not assembled from an empty list, and no written
\* channel document has an empty entries block.
C14_NonEmptyEntries ==
    /\ pc = "assemble" => entries # <<>>
    /\ \A list \in WrittenEntries : list # <<>>

\* the number of channel documents written
ChannelsWritten == Cardinality({i \in 1..Len(out) : out[i].doc = "channel"})

\* C15: the lookups are strictly sequential. A lookup is issued in a turn of
\* the loop, at the cursor, which is above every cursor looked up before in
\* the spec, and its outcome is charged to the budget and counted in the same
\* step, before the next turn; the enumeration of a spec is left only once
\* its loop has ended, and only then does the next spec of the channel begin;
\* a channel is begun only when every channel begun before has been written.
C15_Sequential ==
    [][/\ Len(probed') > Len(probed) =>
            /\ pc = "loop" /\ pc' = "loop"
            /\ LoopCondition(failures, last_version, current_version)
            /\ probed' = Append(probed, probed'[Len(probed')])
            /\ probed'[Len(probed')].version = current_version
            /\ \A i \in 1..Len(probed) : Lt(probed[i].version, current_version)
            /\ failures' = budget - Failed(probed')
            /\ successes' = Len(probed') - Failed(probed')
            /\ Len(yielded') = successes'
            /\ UNCHANGED <<vi, channels_read, budget>>
       /\ (current_version # None /\ current_version' = None) =>
            /\ pc = "after_loop"
            /\ ~LoopCondition(failures, last_version, current_version)
       /\ vi' # vi =>
            \/ /\ pc = "after_loop"
               /\ ~LoopCondition(failures, last_version, current_version)
               /\ vi' = vi + 1
               /\ probed' = <<>>
               /\ UNCHANGED channels_read
            \/ /\ pc = "channels"
               /\ channels_read' = channels_read + 1
       /\ channels_read' # channels_read =>
            /\ pc = "channels"
            /\ channels_read' = channels_read + 1
            /\ ChannelsWritten = channels_read
            /\ current_version = None
            /\ probed = <<>>]_vars

\* the second spec of the second channel has looked up two cursors
C15_Witness ==
    /\ pc = "loop"
    /\ channels_read = 2
    /\ vi = 2
    /\ Len(probed) >= 2
    /\ ChannelsWritten = 1

\* the cursors looked up so far in the spec
ProbedVersions == {probed[i].version : i \in 1..Len(probed)}

\* `to` lies on the walk of the cursor: in the series of `from`, not below it
ToOnWalk ==
    /\ last_version # None
    /\ last_version.ver.major = first_version.ver.major
    /\ last_version.ver.minor = first_version.ver.minor
    /\ last_version.ver.patch >= first_version.ver.patch

\* C16: every cursor a spec looks up has the prefix, major and minor of
\* `from`, a patch level not below that of `from`, and is not above `to`
\* when `to` is given; `to` is an inclusive bound: a turn at the cursor equal
\* to `to`, with a budget not below zero and the cursor not in `skip`, looks
\* the cursor up (or finds no renderer to run), and a loop that ends with the
\* budget not below zero has looked `to` up unless `skip` lists it.
C16_CursorRange ==
    /\ [](\A c \in ProbedVersions :
            /\ c.prefix = first_version.prefix
            /\ c.ver.major = first_version.ver.major
            /\ c.ver.minor = first_version.ver.minor
            /\ c.ver.patch >= first_version.ver.patch
            /\ last_version # None => Le(c, last_version))
    /\ [][(/\ pc = "loop"
           /\ last_version # None
           /\ current_version.ver = last_version.ver
           /\ failures >= 0
           /\ Repr(current_version) \notin to_skip)
          => \/ error' = FileNotFoundError
             \/ /\ Len(probed') = Len(probed) + 1
                /\ SubSeq(probed', 1, Len(probed)) = probed
                /\ probed'[Len(probed')].version = current_version]_vars
    /\ []((pc = "after_loop" /\ ToOnWalk /\ failures >= 0) =>
            \/ \E c \in ProbedVersions : c.ver = last_version.ver
            \/ Repr(ImageVersion(first_version.prefix, last_version.ver))
                   \in to_skip)

\* after a skipped cursor the loop has looked `to` up and ended on it
C16_Witness ==
    /\ pc = "after_loop"
    /\ ToOnWalk
    /\ failures >= 0
    /\ to_skip # {}
    /\ Len(probed) >= 2
    /\ probed[Len(probed)].version.ver = last_version.ver
    /\ probed[Len(probed)].version.ver.patch > first_version.ver.patch

\* Catalogger.render has returned
RenderCompleted ==
    \/ pc \in {"rendered", "validated", "exit"}
    \/ pc = "aborted" /\ error = OpmFailed

\* the records written for an image, in the order of the output
WrittenRecords(image) ==
    LET docs == SelectSeq(out, LAMBDA d : d.doc = "bundle" /\ d.image = image)
    IN  [i \in 1..Len(docs) |-> docs[i].yaml_string]

\* C17: once render has returned, the records of every image whose lookup
\* succeeded have been written exactly once, however often the image was
\* looked up, and after every package and channel document; nothing has been
\* written for an image whose lookup failed, nor for any other image; before
\* render has gone through all its inputs no record of a bundle is written.
C17_BundlesOnce ==
    /\ RenderCompleted =>
        /\ \A o \in observed :
            WrittenRecords(o[1]) = IF o[2] = None THEN <<>> ELSE o[2].yamls
        /\ \A i \in 1..Len(out) :
            out[i].doc = "bundle" =>
                /\ \E o \in observed : o[1] = out[i].image /\ o[2] # None
                /\ \A j \in i..Len(out) : out[j].doc = "bundle"
    /\ ~RenderCompleted => \A i \in 1..Len(out) : out[i].doc # "bundle"

\* render has returned after two channels were written, two images found,
\* one of them yielded by two specs of a channel, and one lookup failed
C17_Witness ==
    /\ RenderCompleted
    /\ ChannelsWritten = 2
    /\ Cardinality({o \in observed : o[2] # None}) = 2
    /\ \E o \in observed : o[2] = None
    /\ \E list \in WrittenEntries :
        \E i \in 1..Len(list) : \E j \in 1..Len(list) :
            i # j /\ list[i].name = list[j].name

\* the run was ended by the error of ImageVersion.parse
ParseFailed ==
    /\ pc = "aborted"
    /\ error.exn = "ValueError"
    /\ error.msg.text # "No single image could be found!"

\* C18: the enumeration of a spec whose `from` or `to` is malformed ends
\* with the ValueError of ImageVersion.parse before any lookup: the renderer
\* is not invoked, the cache is not read, nothing is yielded or written for
\* the spec; the error ends the run, so that no later spec or channel is
\* enumerated.
C18_MalformedVersion ==
    /\ [][(pc = "enumerate" /\ IsMalformed(versions.items[vi])) =>
            /\ pc' = "aborted"
            /\ error' = ParseError(Malformed(versions.items[vi]))
            /\ probed = <<>> /\ yielded = <<>>
            /\ UNCHANGED <<opm_calls, _load_cache, observed, probed, yielded,
                           entries, out, vi, channels_read>>]_vars
    /\ [][ParseFailed => FALSE]_vars
    /\ [](ParseFailed =>
            /\ IsMalformed(versions.items[vi])
            /\ probed = <<>>
            /\ yielded = <<>>
            /\ ChannelsWritten = channels_read - 1)

\* a malformed `to` has ended the run in the second channel, at the first
\* of two specs, after lookups for the first channel
C18_Witness ==
    /\ ParseFailed
    /\ channels_read = 2
    /\ vi = 1
    /\ Len(versions.items) = 2
    /\ CanParse(versions.items[vi].from)
    /\ opm_calls # <<>>
    /\ ChannelsWritten = 1

\* the enumerations of the spec being enumerated that found none of its
\* images in the cache
FreshWalks == {w \in fresh_walks : w.versions_info = versions.items[vi]}

\* every lookup of the enumeration was answered from the cache
AllCached == probed # <<>> /\ \A i \in 1..Len(probed) : ~probed[i].fresh

\* C19: the cache is transparent. The renderer is deterministic in a run,
\* since it is invoked once for an image; an enumeration of a spec that is
\* answered from the cache looks up the same cursors with the same outcomes,
\* yields the same bundles, and ends at the same cursor with the same budget
\* left, as the enumeration of the spec that found none of its images in the
\* cache: a failure from the cache is charged like one from the renderer.
C19_CacheTransparent ==
    /\ (pc = "after_loop" /\ AllCached) => \A w \in FreshWalks : w = Walk
    /\ (pc = "loop" /\ AllCached) =>
        \A w \in FreshWalks :
            /\ Len(probed) <= Len(w.outcomes)
            /\ \A i \in 1..Len(probed) :
                /\ probed[i].version = w.outcomes[i].version
                /\ probed[i].ok = w.outcomes[i].ok
            /\ yielded = SubSeq(w.yielded, 1, Len(yielded))
            /\ failures = budget - Failed(SubSeq(w.outcomes, 1, Len(probed)))

\* an enumeration answered from the cache has ended as the one answered by
\* the renderer did, after a success and a failure
C19_Witness ==
    /\ pc = "after_loop"
    /\ AllCached
    /\ FreshWalks # {}
    /\ successes >= 1
    /\ Failed(probed) >= 1
    /\ failures < budget

====
